---- MODULE Spec2Model ----
(***************************************************************************)
(* Model of src/base/events.js: the Events class, an EventEmitter extended *)
(* with on/off/trigger/triggerThen/once over lists of event names.        *)
(*                                                                         *)
(* A string is a tuple of one-character strings, an event name (a key of   *)
(* the emitter's table) is such a tuple, a listener is a record            *)
(* [w, cb]: w = 0 for a function the caller supplied (identified by cb),   *)
(* w > 0 for the w-th wrapper created by once (cb is its _callback).       *)
(***************************************************************************)
EXTENDS Integers, Sequences, FiniteSets, TLC

(* ------------------------------ bounds -------------------------------- *)

\* most registrations the table holds, over all event names
MaxListeners == 2
\* deepest nesting of trigger calls made from inside a listener
MaxDepth == 2

(* ------------------------------ inputs -------------------------------- *)

\* the absent argument (undefined / null) of a name parameter
Null == <<"null">>

Lower == {"a", "b"}
Upper == {"A", "B"}
Digit == {"1"}

\* the name strings the caller passes to on, off, once and triggerThen
NameInputs == { <<"a">>, <<"a", "b">>, <<"a", " ", "b">>, <<"a", ":", "b">> }

\* the name strings passed where promises are awaited
AsyncNameInputs == { <<"a">>, <<"b">>, <<"a", " ", "b">> }

\* the callbacks the caller owns: f returns 1, p returns a new pending
\* promise, t throws, r calls trigger(["a"]) from inside and returns 4,
\* g calls on("a", f) from inside and returns 5
Callbacks == {"f", "p", "t", "r", "g"}
\* the callbacks used where no promise is awaited, and where one is
SyncCallbacks == {"f", "r", "t"}
AsyncCallbacks == {"f", "p", "t"}

\* the context argument given to once
Contexts == {"ctx"}

\* the trailing arguments given to trigger and triggerThen
ArgLists == { <<"x">> }

\* a function the caller supplied, and the wrapper once() makes (w > 0 tells
\* one wrapper from another; cb is its _callback, name and context are the
\* arguments of once it closes over)
Plain(c) == [w |-> 0, cb |-> c, name |-> Null, context |-> "none"]
Wrapper(w, c, name, context) == [w |-> w, cb |-> c, name |-> name, context |-> context]
\* the absent listener argument
NoListener == Plain("none")

Range(s) == { s[i] : i \in 1..Len(s) }

(* --------------------------- lodash words ----------------------------- *)

\* first index >= i of s whose character is outside class (Len(s)+1 if none)
RECURSIVE RunEnd(_, _, _)
RunEnd(s, i, class) ==
  IF i > Len(s) \/ s[i] \notin class THEN i ELSE RunEnd(s, i + 1, class)

\* lodash 3 reWords, scanned left to right from index i:
\*   upper+(?=upper lower+) | upper? lower+ | upper+ | digit+
RECURSIVE WordsFrom(_, _)
WordsFrom(s, i) ==
  IF i > Len(s) THEN <<>>
  ELSE IF s[i] \in Upper THEN
    LET j == RunEnd(s, i, Upper)
        e == RunEnd(s, j, Lower)
    IN  IF j - i >= 2 /\ e > j
          THEN <<SubSeq(s, i, j - 2)>> \o WordsFrom(s, j - 1)
        ELSE IF j - i = 1 /\ e > j
          THEN <<SubSeq(s, i, e - 1)>> \o WordsFrom(s, e)
        ELSE <<SubSeq(s, i, j - 1)>> \o WordsFrom(s, j)
  ELSE IF s[i] \in Lower THEN
    LET e == RunEnd(s, i, Lower)
    IN  <<SubSeq(s, i, e - 1)>> \o WordsFrom(s, e)
  ELSE IF s[i] \in Digit THEN
    LET e == RunEnd(s, i, Digit)
    IN  <<SubSeq(s, i, e - 1)>> \o WordsFrom(s, e)
  ELSE WordsFrom(s, i + 1)

\* words(string): the absent string is read as '' and has no words
words(nameOrNames) ==
  IF nameOrNames = Null THEN <<>> ELSE WordsFrom(nameOrNames, 1)

\* the event names a table can hold: every word of a name input, and the
\* names trigger is given
TriggerNames == { <<"a">>, <<"b">>, <<"a", "b">>, <<"a", ":", "b">> }
Names == UNION { Range(words(n)) : n \in NameInputs } \cup TriggerNames

(* ---------------------------- EventEmitter ---------------------------- *)

\* EventEmitter.prototype.on(type, listener): appended to the list of type;
\* arguments after the listener are ignored
addListener(ev, type, listener) ==
  [ev EXCEPT ![type] = Append(@, listener)]

\* removeAllListeners that takes off only the listener added last
removeLastListener(ev, type) ==
  IF type \in DOMAIN ev /\ ev[type] # <<>>
    THEN [ev EXCEPT ![type] = SubSeq(@, 1, Len(@) - 1)]
    ELSE ev

\* EventEmitter.prototype.removeAllListeners(type): the one parameter is the
\* event name and every listener under it is removed; a type that is no key
\* of the table (such as a function) removes nothing
removeAllListeners(ev, type) ==
  IF type \in DOMAIN ev THEN [ev EXCEPT ![type] = <<>>] ELSE ev

\* the table key a function argument is coerced to: no event name
FunctionKey(listener) == <<"function", listener.cb>>

\* EventEmitter.prototype.removeAllListeners(): every list is removed
removeAllListenersOfAll(ev) == [n \in DOMAIN ev |-> <<>>]

\* EventEmitter.prototype.listeners(type): a copy of the list of type
listeners(ev, type) == IF type \in DOMAIN ev THEN ev[type] ELSE <<>>

(* ------------------------------ Events -------------------------------- *)

\* on(nameOrNames, handler, ...args): one registration per word
RECURSIVE onWords(_, _, _)
onWords(ev, ws, handler) ==
  IF ws = <<>> THEN ev
  ELSE onWords(addListener(ev, Head(ws), handler), Tail(ws), handler)

\* on that leaves its loop after the first word
onFirstWord(ev, nameOrNames, handler) ==
  onWords(ev, SubSeq(words(nameOrNames), 1, 1), handler)

on(ev, nameOrNames, handler) == onWords(ev, words(nameOrNames), handler)

\* each(words(nameOrNames), name => this.removeAllListeners(name [, listener]))
\* the listener, where given, is a second argument removeAllListeners ignores
RECURSIVE offWords(_, _, _)
offWords(ev, ws, listener) ==
  IF ws = <<>> THEN ev
  ELSE offWords(removeAllListeners(ev, Head(ws)), Tail(ws), listener)

\* off that hands the listener to EventEmitter.prototype.removeListener,
\* which takes off the registrations that are that very function
RECURSIVE offWordsByIdentity(_, _, _)
offWordsByIdentity(ev, ws, listener) ==
  IF ws = <<>> THEN ev
  ELSE offWordsByIdentity(
         [ev EXCEPT ![Head(ws)] = SelectSeq(@, LAMBDA l : l # listener)],
         Tail(ws), listener)

offByIdentity(ev, nameOrNames, listener) ==
  IF nameOrNames = Null
    THEN IF listener = NoListener
           THEN removeAllListenersOfAll(ev)
           ELSE removeAllListeners(ev, FunctionKey(listener))
    ELSE IF listener = NoListener
           THEN offWords(ev, words(nameOrNames), listener)
           ELSE offWordsByIdentity(ev, words(nameOrNames), listener)

\* off with the two branches of its first test exchanged
offSwapped(ev, nameOrNames, listener) ==
  IF nameOrNames = Null
    THEN IF listener # NoListener
           THEN removeAllListenersOfAll(ev)
           ELSE removeAllListeners(ev, FunctionKey(listener))
    ELSE offWords(ev, words(nameOrNames), listener)

\* off(nameOrNames, listener)
off(ev, nameOrNames, listener) ==
  IF nameOrNames = Null
    THEN IF listener = NoListener
           THEN removeAllListenersOfAll(ev)
           \* removeAllListeners(listener): the function is taken as the name
           ELSE removeAllListeners(ev, FunctionKey(listener))
    ELSE offWords(ev, words(nameOrNames), listener)

(* --------------------------- values in flight ------------------------- *)

NoErr == [err |-> "none", p |-> 0]
\* the Error thrown by callback t
Boom == [err |-> "boom", p |-> 0]
\* the reason promise i is rejected with
Rejection(i) == [err |-> "rejected", p |-> i]

\* the TypeError of iterating a value that has no iterator
TypeError == [err |-> "TypeError", p |-> 0]

Undefined == [kind |-> "undefined", v |-> 0]
Value(x) == [kind |-> "value", v |-> x]
PromiseRef(i) == [kind |-> "promise", v |-> i]

\* the values the event loop fulfils a pending promise with
ResolveValues == {2, 3}

\* the arguments a listener is applied to: those emit forwards, or the
\* arguments object of once
EmitArgs(a) == [kind |-> "emit", a |-> a]
OnceArgs(name, callback, context) ==
  [kind |-> "once", name |-> name, callback |-> callback, context |-> context]

\* the listeners of a table, and the wrappers among them
Registered(ev) == UNION { Range(ev[n]) : n \in DOMAIN ev }
WrapperIds(ev) == { l.w : l \in Registered(ev) } \ {0}

\* the state of a wrapper no call has reached: before(2, func), no result
Fresh == [n |-> 2, result |-> Undefined]

(* ------------------------ listeners and dispatch ---------------------- *)
(* One synchronous call tree threads the record st: ev the table, wr the   *)
(* closure state of the wrappers, pr the promises, calls the invocations   *)
(* of the caller's callbacks so far, exc the exception propagating.        *)

RECURSIVE trigger(_, _, _, _)

\* what a callback hands back after the call tree st it started: v, or
\* nothing when an exception is on its way out
Returned(st, v) == [st |-> st, ret |-> IF st.exc = NoErr THEN v ELSE Undefined]

\* the body of the caller's callback cb, applied to args (this = the bus)
CallCallback(st, cb, args, via, depth) ==
  LET st1 == [st EXCEPT !.calls =
                Append(@, [cb |-> cb, args |-> args, via |-> via, depth |-> depth])]
  IN  CASE cb = "f" -> [st |-> st1, ret |-> Value(1)]
        [] cb = "p" -> [st |-> [st1 EXCEPT !.pr = Append(@, [state |-> "pending", v |-> 0])],
                        ret |-> PromiseRef(Len(st1.pr) + 1)]
        [] cb = "t" -> [st |-> [st1 EXCEPT !.exc = Boom], ret |-> Undefined]
        [] cb = "r" ->
             IF depth < MaxDepth
               THEN Returned(trigger(st1, << <<"a">> >>, <<>>, depth + 1), Value(4))
               ELSE [st |-> st1, ret |-> Value(4)]
        [] cb = "g" -> [st |-> [st1 EXCEPT !.ev = on(@, <<"a">>, Plain("f"))],
                        ret |-> Value(5)]

\* the arrow function without its call of this.off
OnceBodyNoOff(st, l, depth) ==
  CallCallback(st, l.cb, OnceArgs(l.name, l.cb, l.context), l.w, depth)

\* the arrow function once() wraps: this.off(name, once), then
\* callback.apply(this, arguments) with the arguments of once()
OnceBody(st, l, depth) ==
  LET st1 == [st EXCEPT !.ev = off(@, l.name, l)]
  IN  CallCallback(st1, l.cb, OnceArgs(l.name, l.cb, l.context), l.w, depth)

\* the wrapper without _.once: every call runs the body
CallWrapperAlways(st, l, depth) == OnceBody(st, l, depth)

\* before(): result = func.apply(this, arguments) is kept in the closure of
\* wrapper w, unless func throws
KeepResult(r, w) ==
  IF r.st.exc = NoErr
    THEN [st |-> [r.st EXCEPT !.wr[w].result = r.ret], ret |-> r.ret]
    ELSE r

\* _.once(func) = before(2, func): --n; n > 0 runs func and keeps its result;
\* every call returns the kept result (n below 0 behaves as 0 and is kept 0)
CallWrapper(st, l, depth) ==
  LET n1 == IF st.wr[l.w].n > 0 THEN st.wr[l.w].n - 1 ELSE 0
      st1 == [st EXCEPT !.wr[l.w].n = n1]
  IN  IF n1 > 0
        THEN KeepResult(OnceBody(st1, l, depth), l.w)
        ELSE [st |-> st1, ret |-> st1.wr[l.w].result]

\* listener.apply(this, args)
CallListener(st, l, args, depth) ==
  IF l.w = 0 THEN CallCallback(st, l.cb, EmitArgs(args), 0, depth)
  ELSE CallWrapper(st, l, depth)

\* emit that goes on to the next listener when one has thrown
RECURSIVE emitListAll(_, _, _, _)
emitListAll(st, ls, args, depth) ==
  IF ls = <<>> THEN st
  ELSE emitListAll(CallListener(st, Head(ls), args, depth).st, Tail(ls), args, depth)

\* EventEmitter.prototype.emit: the listeners of a copy of the list are
\* called in order; an exception leaves the loop
RECURSIVE emitList(_, _, _, _)
emitList(st, ls, args, depth) ==
  IF ls = <<>> \/ st.exc # NoErr THEN st
  ELSE emitList(CallListener(st, Head(ls), args, depth).st, Tail(ls), args, depth)

\* emit that reads the list of the table anew before each listener, from
\* the i-th on
RECURSIVE emitLiveFrom(_, _, _, _, _)
emitLiveFrom(st, type, args, depth, i) ==
  IF i > Len(listeners(st.ev, type)) \/ st.exc # NoErr THEN st
  ELSE emitLiveFrom(CallListener(st, listeners(st.ev, type)[i], args, depth).st,
                    type, args, depth, i + 1)

emitLive(st, type, args, depth) == emitLiveFrom(st, type, args, depth, 1)

emit(st, type, args, depth) == emitList(st, listeners(st.ev, type), args, depth)

\* trigger(nameOrNames, ...args): for (const name of nameOrNames) emit
trigger(st, nameOrNames, args, depth) ==
  IF nameOrNames = <<>> \/ st.exc # NoErr THEN st
  ELSE trigger(emit(st, Head(nameOrNames), args, depth), Tail(nameOrNames), args, depth)

\* the iteration of trigger's first argument: an array yields its elements,
\* a string its characters
Iterate(x) ==
  IF x.kind = "array" THEN x.items
  ELSE [i \in 1..Len(x.s) |-> <<x.s[i]>>]

Arr(items) == [kind |-> "array", items |-> items, s |-> <<>>]
Str(s) == [kind |-> "string", items |-> <<>>, s |-> s]
\* the first argument of trigger left out (undefined)
Absent == [kind |-> "absent", items |-> <<>>, s |-> <<>>]

\* the call trigger(x, ...args) of the caller: for...of asks x for its
\* iterator first, and an absent x has none
triggerCall(st, x, args) ==
  IF x.kind = "absent" THEN [st EXCEPT !.exc = TypeError]
  ELSE trigger(st, Iterate(x), args, 0)

\* what the caller passes to trigger
TriggerInputs ==
  { Arr(<<n>>) : n \in TriggerNames } \cup { Str(<<"a">>), Str(<<"a", "b">>) }

\* flatMap that puts the listeners of a later name first
RECURSIVE flatMapReversed(_, _)
flatMapReversed(ev, names) ==
  IF names = <<>> THEN <<>>
  ELSE flatMapReversed(ev, Tail(names)) \o listeners(ev, Head(names))

\* flatMap(names, this.listeners, this)
RECURSIVE flatMap(_, _)
flatMap(ev, names) ==
  IF names = <<>> THEN <<>>
  ELSE listeners(ev, Head(names)) \o flatMap(ev, Tail(names))

(* ----------------------------- triggerThen --------------------------- *)

\* the mapper with a block body and no return
mapperNoReturn(st, l, args) ==
  [st |-> CallListener(st, l, args, 0).st, ret |-> Undefined]

\* listener => listener.apply(this, args): the mapper hands back what the
\* listener returned
mapper(st, l, args) == CallListener(st, l, args, 0)

\* the settled value of a listener's result, once it has one
IsSettled(slot, pr) == slot.kind = "promise" => pr[slot.v].state # "pending"
SettledValue(slot, pr) ==
  IF slot.kind = "promise" THEN Value(pr[slot.v].v) ELSE slot

\* a pending aggregate looks at its slots: the first rejected one rejects it,
\* and when none is pending it is fulfilled with the values in slot order;
\* by is the promise whose settling made it look (0 when it is created)
Advance(agg, pr, by) ==
  LET bad == { i \in 1..Len(agg.slots) :
                 agg.slots[i].kind = "promise" /\ pr[agg.slots[i].v].state = "rejected" }
  IN  IF agg.status # "pending" THEN agg
      ELSE IF bad # {}
        THEN [agg EXCEPT !.status = "rejected", !.by = by,
                !.reason = Rejection(agg.slots[CHOOSE i \in bad : \A j \in bad : i <= j].v)]
      ELSE IF \A i \in 1..Len(agg.slots) : IsSettled(agg.slots[i], pr)
        THEN [agg EXCEPT !.status = "fulfilled", !.by = by,
                !.value = [i \in 1..Len(agg.slots) |-> SettledValue(agg.slots[i], pr)]]
      ELSE agg

\* an aggregate: ls the listeners it was made for, calls the invocations of
\* the caller's callbacks made for it, made the promises they created, slots
\* what the mapper returned, status / reason / value its outcome
NoAgg == [ls |-> <<>>, calls |-> <<>>, made |-> {}, slots |-> <<>>,
          status |-> "none", reason |-> NoErr, value |-> <<>>, by |-> 0]

\* Promise.map(listeners, mapper): the mapper is applied to the listeners in
\* order and each result fills the next slot; a mapper that throws rejects
\* the aggregate, nothing is thrown at the caller and no later listener is
\* mapped
RECURSIVE mapList(_, _, _, _)
\* r is what the mapper gave for one listener; the rest are mapped after it
mapRest(r, ls, args, slots) ==
  mapList(r.st, ls, args, IF r.st.exc = NoErr THEN Append(slots, r.ret) ELSE slots)

mapList(st, ls, args, slots) ==
  IF ls = <<>> \/ st.exc # NoErr THEN [st |-> st, slots |-> slots]
  ELSE mapRest(mapper(st, Head(ls), args), Tail(ls), args, slots)

\* the aggregate for the listeners ls once they are mapped (m), the promises
\* from number first on being those made meanwhile
Aggregate(m, ls, first) ==
  LET a == [NoAgg EXCEPT !.ls = ls, !.calls = m.st.calls,
              !.made = first..Len(m.st.pr),
              !.slots = m.slots, !.status = "pending"]
  IN  [st |-> [m.st EXCEPT !.exc = NoErr],
       agg |-> IF m.st.exc # NoErr
                 THEN [a EXCEPT !.status = "rejected", !.reason = m.st.exc]
                 ELSE Advance(a, m.st.pr, 0)]

PromiseMap(st, ls, args) ==
  Aggregate(mapList(st, ls, args, <<>>), ls, Len(st.pr) + 1)

\* triggerThen that applies the listeners itself and hands the results to
\* Promise.all: a listener that throws throws at the caller
triggerThenEager(st, nameOrNames, args) ==
  LET ls == flatMap(st.ev, words(nameOrNames))
      m == mapList(st, ls, args, <<>>)
  IN  [st |-> m.st, agg |-> Aggregate(m, ls, Len(st.pr) + 1).agg]

\* triggerThen that wraps the results in Promise.resolve without waiting
triggerThenNoWait(st, nameOrNames, args) ==
  LET r == PromiseMap(st, flatMap(st.ev, words(nameOrNames)), args)
  IN  IF r.agg.status = "pending"
        THEN [r EXCEPT !.agg.status = "fulfilled", !.agg.value = r.agg.slots]
        ELSE r

\* triggerThen(nameOrNames, ...args)
triggerThen(st, nameOrNames, args) ==
  PromiseMap(st, flatMap(st.ev, words(nameOrNames)), args)

\* events: the table; agg: the aggregate of the last triggerThen, followed
\* until the caller lets go of it; promises: the promises made for it;
\* calls, thrown, last: what the last call of the caller invoked, threw, was
VARIABLES events, promises, agg, calls, thrown, last

vars == <<events, promises, agg, calls, thrown, last>>

\* the state a call of the caller starts from
StateOf(ev, pr) ==
  [ev |-> ev, wr |-> [w \in WrapperIds(ev) |-> Fresh], pr |-> pr,
   calls |-> <<>>, exc |-> NoErr]

\* the operation the caller made last: names its string argument (Null if
\* none), items its array argument, listener its function argument, removed
\* the listeners it took off the table
Op(op, names, items, listener, removed) ==
  [op |-> op, names |-> names, items |-> items, listener |-> listener,
   removed |-> removed]

\* the number of registrations under the names ns
RECURSIVE SumLen(_, _)
SumLen(ev, ns) ==
  IF ns = {} THEN 0
  ELSE LET n == CHOOSE m \in ns : TRUE IN Len(ev[n]) + SumLen(ev, ns \ {n})

Fits(ev) == SumLen(ev, DOMAIN ev) <= MaxListeners

Init ==
  /\ events = [n \in Names |-> <<>>]
  /\ promises = <<>>
  /\ agg = NoAgg
  /\ calls = <<>>
  /\ thrown = NoErr
  /\ last = Op("new", Null, <<>>, NoListener, {})

On(n, c) ==
  /\ agg = NoAgg
  /\ Fits(on(events, n, Plain(c)))
  /\ events' = on(events, n, Plain(c))
  /\ calls' = <<>>
  /\ thrown' = NoErr
  /\ last' = Op("on", n, <<>>, Plain(c), {})
  /\ UNCHANGED <<promises, agg>>

\* the identity of the next wrapper: the least one no registered wrapper has
NewWrapperId(ev) ==
  CHOOSE w \in 1..(Cardinality(WrapperIds(ev)) + 1) : w \notin WrapperIds(ev)

\* once(name, callback, context): a new wrapper, registered with on
once(ev, name, callback, context) ==
  on(ev, name, Wrapper(NewWrapperId(ev), callback, name, context))

Once(n, c, ctx) ==
  /\ agg = NoAgg
  /\ Fits(once(events, n, c, ctx))
  /\ events' = once(events, n, c, ctx)
  /\ calls' = <<>>
  /\ thrown' = NoErr
  /\ last' = Op("once", n, <<>>, Plain(c), {})
  /\ UNCHANGED <<promises, agg>>

Off(n, l) ==
  /\ agg = NoAgg
  /\ events' = off(events, n, l)
  /\ calls' = <<>>
  /\ thrown' = NoErr
  /\ last' = Op("off", n, <<>>, l, Registered(events) \ Registered(events'))
  /\ UNCHANGED <<promises, agg>>

\* the caller's call has come back with the call tree st
Back(st) ==
  /\ events' = st.ev
  /\ calls' = st.calls
  /\ thrown' = st.exc

Trigger(x, args) ==
  /\ agg = NoAgg
  /\ Back(triggerCall(StateOf(events, promises), x, args))
  /\ Fits(events')
  /\ last' = Op("trigger", IF x.kind = "string" THEN x.s ELSE Null, x.items,
                NoListener,
                Registered(events) \ Registered(events'))
  \* emit drops what the listeners return
  /\ UNCHANGED <<promises, agg>>

\* the caller's triggerThen has come back with r: the call tree and the
\* aggregate
BackThen(r) ==
  /\ Back(r.st)
  /\ promises' = r.st.pr
  /\ agg' = r.agg

TriggerThen(n, args) ==
  /\ agg = NoAgg
  /\ BackThen(triggerThen(StateOf(events, promises), n, args))
  /\ Fits(events')
  /\ last' = Op("triggerThen", n, <<>>, NoListener,
                Registered(events) \ Registered(events'))

\* the event loop settles the pending promise i, and the aggregate waiting
\* for it sees it
Settled(i, outcome) ==
  /\ i \in 1..Len(promises)
  /\ promises[i].state = "pending"
  /\ promises' = [promises EXCEPT ![i] = outcome]
  /\ agg' = Advance(agg, promises', i)
  /\ UNCHANGED <<events, calls, thrown, last>>

Fulfil(i, v) == Settled(i, [state |-> "fulfilled", v |-> v])

Reject(i) == Settled(i, [state |-> "rejected", v |-> 0])

\* the caller lets go of the aggregate; the table is no input of Settled, so
\* the caller's next call is taken from here
Release ==
  /\ agg # NoAgg
  /\ agg' = NoAgg
  /\ promises' = <<>>
  /\ UNCHANGED <<events, calls, thrown, last>>

Next ==
  \/ \E n \in NameInputs, c \in SyncCallbacks : On(n, c)
  \/ \E n \in NameInputs, c \in SyncCallbacks, ctx \in Contexts : Once(n, c, ctx)
  \/ \E n \in NameInputs \cup {Null}, l \in {Plain(c) : c \in SyncCallbacks} \cup {NoListener} :
       Off(n, l)
  \/ \E x \in TriggerInputs, args \in ArgLists : Trigger(x, args)

Spec == Init /\ [][Next]_vars

\* the bus used with triggerThen and listeners that return promises
NextThen ==
  \/ \E n \in AsyncNameInputs, c \in AsyncCallbacks : On(n, c)
  \/ \E n \in AsyncNameInputs, c \in AsyncCallbacks, ctx \in Contexts : Once(n, c, ctx)
  \/ \E n \in AsyncNameInputs, args \in ArgLists : TriggerThen(n, args)
  \/ \E i \in 1..MaxListeners, v \in ResolveValues : Fulfil(i, v)
  \/ \E i \in 1..MaxListeners : Reject(i)
  \/ Release

SpecThen == Init /\ [][NextThen]_vars

\* the bus given malformed names, and listeners that register listeners
EdgeNameInputs == { <<"a">>, Null, <<>>, <<" ", " ">> }
EdgeCallbacks == {"f", "g"}
EdgeTriggerInputs == { Arr(<< <<"a">> >>), Absent, Str(<<>>), Str(<<" ", " ">>) }

NextEdge ==
  \/ \E n \in EdgeNameInputs, c \in EdgeCallbacks : On(n, c)
  \/ \E n \in EdgeNameInputs, c \in EdgeCallbacks, ctx \in Contexts : Once(n, c, ctx)
  \/ \E x \in EdgeTriggerInputs, args \in ArgLists : Trigger(x, args)
  \/ \E n \in EdgeNameInputs, args \in ArgLists : TriggerThen(n, args)
  \/ Release

SpecEdge == Init /\ [][NextEdge]_vars

(* ------------------------------ properties ---------------------------- *)

\* the invocations a call made itself, not those of a trigger nested in one
Direct(cs) == SelectSeq(cs, LAMBDA e : e.depth = 0)
\* how often cs invokes callback c, and how often through wrapper w
NumCalls(cs, c) == Len(SelectSeq(cs, LAMBDA e : e.cb = c))
NumVia(cs, w) == Len(SelectSeq(cs, LAMBDA e : e.via = w))
\* the callbacks of the functions registered with on, in table order
PlainCbs(ls) ==
  LET ps == SelectSeq(ls, LAMBDA l : l.w = 0) IN [i \in 1..Len(ps) |-> ps[i].cb]
\* the callbacks a call invoked itself as plain listeners, in order
PlainDirectCbs(cs) ==
  LET ps == SelectSeq(cs, LAMBDA e : e.depth = 0 /\ e.via = 0)
  IN  [i \in 1..Len(ps) |-> ps[i].cb]
\* the names the last trigger call dispatched, in order
Dispatched(l) ==
  IF l.names # Null THEN [i \in 1..Len(l.names) |-> <<l.names[i]>>] ELSE l.items
\* whether listener l stands for the callback the caller passed as fn
SameCallback(l, fn) == l.cb = fn.cb

AB == <<"a", " ", "b">>

\* C1: the callback of a once wrapper is invoked at most once in any call,
\* also when it triggers its own name from inside; a wrapper that has fired
\* is off the table, so no later trigger invokes it; and a trigger that
\* completes invokes exactly once the callback of every wrapper registered
\* under the first name it dispatches.
C1_OnceDeliveredAtMostOnce ==
  /\ [](\A e \in Range(calls) :
          e.via > 0 => NumVia(calls, e.via) = 1 /\ e.via \notin WrapperIds(events))
  /\ [][(last'.op = "trigger" /\ thrown' = NoErr)
          => \A l \in Range(events[Head(Dispatched(last'))]) :
               l.w > 0 => NumVia(calls', l.w) = 1]_vars

\* a callback registered with once("a", r) has fired and has triggered "a"
\* again from inside
C1_Witness ==
  /\ last.op = "trigger"
  /\ \E e \in Range(calls) :
       /\ e.via > 0 /\ e.cb = "r" /\ e.depth < MaxDepth
       /\ e.args.kind = "once" /\ e.args.name = <<"a">>
       /\ NumVia(calls, e.via) = 1

\* C2: off(names, listener) with both present takes off only registrations
\* of that callback: under every name the registrations of other callbacks
\* are the same before and after.
C2_OffRemovesOnlyMatching ==
  [][(last'.op = "off" /\ last'.names # Null /\ last'.listener # NoListener)
       => \A n \in Names :
            SelectSeq(events'[n], LAMBDA l : ~SameCallback(l, last'.listener))
              = SelectSeq(events[n], LAMBDA l : ~SameCallback(l, last'.listener))]_vars

\* C3: a trigger([x]) that follows off(x, fn) does not invoke fn, whether fn
\* was registered with on or with once.
C3_OffCancelsOnce ==
  [][(/\ last.op = "off" /\ last.names # Null /\ last.listener # NoListener
      /\ last'.op = "trigger" /\ last'.items = <<last.names>>)
       => NumCalls(calls', last.listener.cb) = 0]_vars

\* off(x, f) has taken a wrapper made by once(x, f) off the table
C3_Witness ==
  /\ last.op = "off" /\ last.names # Null /\ last.listener = Plain("f")
  /\ \E l \in last.removed : l.w > 0 /\ l.cb = "f" /\ l.name = last.names

\* C4: trigger("A"), given the name as a string, invokes the functions
\* registered with on under A, in registration order.
C4_TriggerInRegistrationOrder ==
  [][(last'.op = "trigger" /\ last'.names # Null /\ thrown' = NoErr)
       => PlainDirectCbs(calls') = PlainCbs(events[last'.names])]_vars

\* what trigger(["a"]) and then trigger(["b"]) do on the table ev: s1 the
\* first call tree, s2 the second
ThenB(s1) ==
  [s1 |-> s1, s2 |-> trigger(StateOf(s1.ev, <<>>), << <<"b">> >>, <<"x">>, 0)]
TriggerAThenB(ev) ==
  ThenB(trigger(StateOf(ev, <<>>), << <<"a">> >>, <<"x">>, 0))
NeitherThrew(p) == p.s1.exc = NoErr /\ p.s2.exc = NoErr

\* whether each of the two calls of p invoked fn itself exactly once
OnceEach(p, fn) ==
  /\ NumCalls(Direct(p.s1.calls), fn) = 1
  /\ NumCalls(Direct(p.s2.calls), fn) = 1
  /\ NumCalls(Direct(p.s1.calls) \o Direct(p.s2.calls), fn) = 2
FiresOnceEach(p, fn) == NeitherThrew(p) => OnceEach(p, fn)

\* C5: on("a b", fn), with fn registered nowhere before and no once wrapper
\* on the table, leaves a table on which trigger(["a"]) and then
\* trigger(["b"]) each invoke fn once (unless a listener throws), twice in
\* total.
C5_SubscribeList ==
  [][(/\ last'.op = "on" /\ last'.names = AB
      /\ last'.listener \notin Registered(events)
      /\ WrapperIds(events) = {})
       => FiresOnceEach(TriggerAThenB(events'), last'.listener.cb)]_vars

\* on("a b", f) has registered f under a and under b
C5_Witness ==
  /\ last.op = "on" /\ last.names = AB /\ last.listener = Plain("f")
  /\ events[<<"a">>] = <<Plain("f")>> /\ events[<<"b">>] = <<Plain("f")>>

\* whether the i-th listener of the aggregate runs a callback when it is
\* applied: a function does, a once wrapper does the first time only
Invoking(ls, i) == ls[i].w = 0 \/ \A j \in 1..(i - 1) : ls[j].w # ls[i].w
\* the invocation, among those made for the aggregate, that produced the
\* result of its i-th listener
CallOf(ls, i) ==
  LET first == CHOOSE j \in 1..i : (ls[i].w = 0 /\ j = i) \/ (ls[i].w > 0 /\ ls[j].w = ls[i].w
                                       /\ \A k \in 1..(j - 1) : ls[k].w # ls[i].w)
  IN  Cardinality({ j \in 1..first : Invoking(ls, j) })
\* the promise the k-th invocation made, the promises being numbered as made
PromiseOf(cs, k) == Cardinality({ j \in 1..k : cs[j].cb = "p" })
\* what the k-th invocation resolved to
ResolvedOf(cs, pr, k) ==
  IF cs[k].cb = "p" THEN Value(pr[PromiseOf(cs, k)].v) ELSE Value(1)
\* the failures of the listeners invoked for the aggregate
Failures ==
  { Boom : e \in { e \in Range(agg.calls) : e.cb = "t" } }
    \cup { Rejection(i) : i \in { i \in agg.made : promises[i].state = "rejected" } }

\* C6: a fulfilled aggregate holds one value for each listener, in listener
\* order, each the value that listener's invocation resolved to (1 for a
\* listener returning 1, the value its promise was fulfilled with for a
\* listener returning a promise), whatever order the promises were fulfilled
\* in.
C6_AggregateInListenerOrder ==
  agg.status = "fulfilled"
  => /\ Len(agg.value) = Len(agg.ls)
     /\ \A i \in 1..Len(agg.ls) :
          LET k == CallOf(agg.ls, i)
          IN  /\ k \in 1..Len(agg.calls)
              /\ agg.calls[k].cb = agg.ls[i].cb
              /\ agg.calls[k].cb = "p" => promises[PromiseOf(agg.calls, k)].state = "fulfilled"
              /\ agg.value[i] = ResolvedOf(agg.calls, promises, k)

\* two listeners returned promises, the second was fulfilled (with 3) before
\* the first (with 2), and the aggregate is [2, 3]
C6_Witness ==
  /\ agg.status = "fulfilled"
  /\ agg.ls = <<Plain("p"), Plain("p")>>
  /\ agg.by = 1
  /\ agg.value = <<Value(2), Value(3)>>

\* C7: triggerThen throws nothing at its caller; and while a listener
\* invoked for the aggregate has thrown or has returned a promise that is
\* rejected, the aggregate is rejected, with one of those failures, and not
\* fulfilled.
C7_AggregateRejects ==
  /\ last.op = "triggerThen" => thrown = NoErr
  /\ (agg # NoAgg /\ Failures # {})
       => agg.status = "rejected" /\ agg.reason \in Failures

\* the first of two listeners threw: the aggregate is rejected with what it
\* threw and the caller saw no exception
C7_Witness ==
  /\ last.op = "triggerThen" /\ thrown = NoErr
  /\ Len(agg.ls) = 2 /\ agg.ls[1].cb = "t"
  /\ agg.status = "rejected" /\ agg.reason = Boom

\* C8: a fulfilled aggregate has had every listener of its snapshot applied,
\* and none of the promises they returned is pending.
C8_AggregateWaitsForAll ==
  agg.status = "fulfilled"
  => /\ Len(agg.slots) = Len(agg.ls)
     /\ Len(agg.calls) = Cardinality({ i \in 1..Len(agg.ls) : Invoking(agg.ls, i) })
     /\ \A i \in agg.made : promises[i].state # "pending"
     /\ \A i \in 1..Len(agg.slots) : IsSettled(agg.slots[i], promises)

\* an aggregate of two listeners was pending until the promise one of them
\* returned was fulfilled
C8_Witness ==
  /\ agg.status = "fulfilled" /\ Len(agg.ls) = 2
  /\ agg.made # {} /\ agg.by \in agg.made

\* C9: after off() the table holds no registration and no trigger invokes
\* anything.
C9_OffAll ==
  (last.op = "off" /\ last.names = Null /\ last.listener = NoListener)
  => /\ Registered(events) = {}
     /\ \A x \in TriggerInputs :
          trigger(StateOf(events, <<>>), Iterate(x), <<"x">>, 0).calls = <<>>

\* off() has taken a function and a once wrapper off the table
C9_Witness ==
  /\ last.op = "off" /\ last.names = Null /\ last.listener = NoListener
  /\ \E l \in last.removed : l.w = 0
  /\ \E l \in last.removed : l.w > 0

\* C10: after off(absent, listener) no registration of that callback is left
\* on the table.
C10_OffListenerEverywhere ==
  (last.op = "off" /\ last.names = Null /\ last.listener # NoListener)
  => \A l \in Registered(events) : ~SameCallback(l, last.listener)

\* what every input of trigger delivers on the table ev
Deliveries(ev) ==
  [x \in TriggerInputs |-> trigger(StateOf(ev, <<>>), Iterate(x), <<"x">>, 0).calls]

\* C11: after off(name, fn) has returned, a second off(name, fn) throws
\* nothing and leaves the table, and what every later trigger delivers, as
\* the first left them.
C11_OffIdempotent ==
  (last.op = "off" /\ last.names # Null /\ last.listener # NoListener)
  => /\ thrown = NoErr
     /\ off(events, last.names, last.listener) = events
     /\ Deliveries(off(events, last.names, last.listener)) = Deliveries(events)

\* off(name, fn) has taken a registration off and others are left on the table
C11_Witness ==
  /\ last.op = "off" /\ last.names # Null /\ last.listener # NoListener
  /\ last.removed # {}
  /\ Registered(events) # {}

\* C12: when a listener has thrown during trigger, the exception is at the
\* caller of trigger, and the listener that threw is the last one the call
\* invoked: none later in the list of its name, none of a later name.
C12_TriggerPropagates ==
  (last.op = "trigger" /\ NumCalls(calls, "t") > 0)
  => /\ thrown = Boom
     /\ calls[Len(calls)].cb = "t"
     /\ NumCalls(calls, "t") = 1

\* trigger([n]) found t and another listener under n, t threw, and the other
\* was not invoked
C12_Witness ==
  /\ last.op = "trigger" /\ thrown = Boom /\ Len(calls) = 1
  /\ \E n \in Names :
       /\ last.items = <<n>>
       /\ Len(events[n]) = 2
       /\ events[n][1] = Plain("t")

\* C14: once("a b", fn) on an empty table leaves a table on which
\* trigger(["a"]) and then trigger(["b"]) invoke fn twice, once each (unless
\* fn throws).
C14_OnceFiresPerName ==
  [][(last'.op = "once" /\ last'.names = AB /\ Registered(events) = {})
       => FiresOnceEach(TriggerAThenB(events'), last'.listener.cb)]_vars

\* C15: a callback invoked through a once wrapper is applied to the
\* arguments emit forwarded for that firing.
C15_OnceForwardsArguments ==
  \A e \in Range(calls) : e.via > 0 => e.args.kind = "emit"

\* a name string without whitespace
NoWhitespace(n) == n # Null /\ " " \notin Range(n)

\* C17: on(n, fn) with no whitespace in n adds fn under the name n and
\* changes the list of no other name.
C17_SplitAtWhitespaceOnly ==
  [][(last'.op = "on" /\ NoWhitespace(last'.names))
       => events' = addListener(events, last'.names, last'.listener)]_vars

\* C18: a trigger takes no function registered with on off the table: under
\* every name those registrations are the same before and after, whatever
\* once wrappers fired.
C18_OnceFiringKeepsOthers ==
  [][(last'.op = "trigger")
       => \A n \in Names :
            SelectSeq(events'[n], LAMBDA l : l.w = 0)
              = SelectSeq(events[n], LAMBDA l : l.w = 0)]_vars

\* a step that is a call of triggerThen
IsTriggerThen == agg = NoAgg /\ agg' # NoAgg /\ last'.op = "triggerThen"

\* C19: a triggerThen(x) in which no listener throws invokes once the
\* callback of every once wrapper registered under a word of x and leaves
\* the wrapper off the table, so that a second triggerThen(x), or a trigger
\* of the words of x, does not invoke it again: once in all.
C19_TriggerThenFiresOnceOnce ==
  [][(IsTriggerThen /\ NumCalls(calls', "t") = 0)
       => \A l \in Range(flatMap(events, words(last'.names))) :
            l.w > 0
            => /\ NumVia(calls', l.w) = 1
               /\ l.w \notin WrapperIds(events')
               /\ NumVia(triggerThen(StateOf(events', promises'), last'.names,
                                      <<"x">>).st.calls, l.w) = 0
               /\ NumVia(trigger(StateOf(events', promises'), words(last'.names),
                                  <<"x">>, 0).calls, l.w) = 0]_vars

\* triggerThen has invoked the callback of a once wrapper, once, and the
\* table is empty after it
C19_Witness ==
  /\ last.op = "triggerThen" /\ agg # NoAgg
  /\ \E l \in last.removed : l.w > 0 /\ l.cb = "f" /\ NumVia(calls, l.w) = 1
  /\ Registered(events) = {}

\* whether s is the start of t
IsPrefix(s, t) == Len(s) <= Len(t) /\ s = SubSeq(t, 1, Len(s))

\* C20: triggerThen("a b") maps the listeners registered under a, in
\* registration order, followed by those registered under b, in registration
\* order; it invokes the functions among them in that order, up to one that
\* throws, and when none throws it has one result for each listener.
C20_TriggerThenFlattens ==
  [][(IsTriggerThen /\ last'.names = AB)
       => /\ agg'.ls = events[<<"a">>] \o events[<<"b">>]
          /\ IsPrefix(PlainDirectCbs(calls'), PlainCbs(agg'.ls))
          /\ NumCalls(calls', "t") = 0
               => /\ PlainDirectCbs(calls') = PlainCbs(agg'.ls)
                  /\ Len(agg'.slots) = Len(agg'.ls)]_vars

\* p is registered under a and f under b, and triggerThen("a b") has
\* invoked p and then f
C20_Witness ==
  /\ last.op = "triggerThen" /\ last.names = AB
  /\ events[<<"a">>] = <<Plain("p")>> /\ events[<<"b">>] = <<Plain("f")>>
  /\ agg.ls = <<Plain("p"), Plain("f")>>
  /\ PlainDirectCbs(calls) = <<"p", "f">>

\* a step that is a call of trigger
IsTrigger == agg = NoAgg /\ agg' = NoAgg /\ last'.op = "trigger"
\* the callbacks cs invoked with the wrapper each went through, and the
\* callbacks of the listeners ls with the wrapper each is
InvokedKeys(cs) == [i \in 1..Len(cs) |-> <<cs[i].cb, cs[i].via>>]
ListenerKeys(ls) == [i \in 1..Len(ls) |-> <<ls[i].cb, ls[i].w>>]

\* C13: trigger(["a"]) and triggerThen("a") invoke exactly the listeners
\* that were under a when the call started, each once and in order, also
\* when one of them registers a listener under a or empties the list of a
\* while the call runs.
C13_DispatchOnSnapshot ==
  [][/\ (IsTrigger /\ last'.items = << <<"a">> >>)
          => InvokedKeys(calls') = ListenerKeys(events[<<"a">>])
     /\ (IsTriggerThen /\ last'.names = <<"a">>)
          => InvokedKeys(calls') = ListenerKeys(events[<<"a">>])]_vars

\* trigger(["a"]) has invoked g alone; g registered f under a meanwhile and
\* f was not invoked
C13_Witness ==
  /\ last.op = "trigger" /\ last.items = << <<"a">> >>
  /\ InvokedKeys(calls) = << <<"g", 0>> >>
  /\ events[<<"a">>] = <<Plain("g"), Plain("f")>>

\* a name argument that is absent, empty, or whitespace only
Blank(n) == n = Null \/ \A i \in 1..Len(n) : n[i] = " "
\* whether the call l was given such a name
IsMalformedCall(l) ==
  \/ l.op \in {"on", "once", "triggerThen"} /\ Blank(l.names)
  \/ l.op = "trigger" /\ l.items = <<>> /\ Blank(l.names)

\* C16: on, once, trigger or triggerThen given an absent, empty or
\* whitespace-only name throws nothing, invokes nothing and leaves the table
\* as it was.
C16_MalformedNameTolerated ==
  [][(last' # last /\ IsMalformedCall(last'))
       => thrown' = NoErr /\ calls' = <<>> /\ events' = events]_vars
====
